---------------------------- MODULE Spec2Model ----------------------------
(***************************************************************************)
(* State-machine model of install_ollama_openwebui.py: the provisioning    *)
(* sequence of main() with every external command, download and file      *)
(* operation as a step whose outcome the environment chooses.              *)
(*                                                                         *)
(* Program positions (pc) and the entries of the operation log (invoked)   *)
(* are source line numbers of src/install_ollama_openwebui.py.             *)
(* Text produced by external commands is a sequence of one-character       *)
(* strings, so that the substring test and the version parse of the code   *)
(* are computed as the code computes them.                                 *)
(***************************************************************************)
EXTENDS Integers, Sequences, FiniteSets, TLC

\* ------------------------------------------------------------- bounds
\* Largest number of self-re-executions (os.execv) explored.
MaxExecs == 2
\* Largest retry count the run_command harness (SpecRun) is called with.
MaxRetries == 6

None == <<>>

\* ------------------------------------------------------ text helpers
Digits == <<"0", "1", "2", "3", "4", "5", "6", "7", "8", "9">>

RECURSIVE Str(_)
\* Decimal text of a natural number, as the external tools print it.
Str(n) == IF n < 10 THEN <<Digits[n + 1]>>
          ELSE Str(n \div 10) \o <<Digits[(n % 10) + 1]>>

Join3(v) == Str(v[1]) \o <<".">> \o Str(v[2]) \o <<".">> \o Str(v[3])

\* What `<python> --version` prints for an interpreter of version v.
PythonVersionOutput(v) == <<"P", "y", "t", "h", "o", "n", " ">> \o Join3(v) \o <<"\n">>

\* What `node --version` prints for a runtime of version v.
NodeVersionOutput(v) == <<"v">> \o Join3(v) \o <<"\n">>

\* Python's `sub in s` on text.
Contains(sub, s) ==
    \E i \in 1..(Len(s) - Len(sub) + 1) : SubSeq(s, i, i + Len(sub) - 1) = sub

\* The literal "3.11" of the fast-path test.
PinnedText == <<"3", ".", "1", "1">>

Whitespace == {" ", "\n", "\t", "\r"}

RECURSIVE LStripSet(_, _)
LStripSet(s, cs) == IF s # <<>> /\ s[1] \in cs THEN LStripSet(Tail(s), cs) ELSE s

RECURSIVE RStripSet(_, _)
RStripSet(s, cs) ==
    IF s # <<>> /\ s[Len(s)] \in cs THEN RStripSet(SubSeq(s, 1, Len(s) - 1), cs) ELSE s

\* str.strip()
Strip(s) == RStripSet(LStripSet(s, Whitespace), Whitespace)

\* str.lstrip("v")
LStripV(s) == LStripSet(s, {"v"})

RECURSIVE SplitAcc(_, _, _)
SplitAcc(s, sep, cur_part) ==
    IF s = <<>> THEN <<cur_part>>
    ELSE IF s[1] = sep THEN <<cur_part>> \o SplitAcc(Tail(s), sep, <<>>)
    ELSE SplitAcc(Tail(s), sep, Append(cur_part, s[1]))

\* str.split(sep)
Split(s, sep) == SplitAcc(s, sep, <<>>)

DigitValue(c) == CHOOSE d \in 0..9 : Digits[d + 1] = c

\* Whether int(s) succeeds (otherwise it raises ValueError).
IsInt(s) == s # <<>> /\ \A i \in 1..Len(s) : \E d \in 1..10 : Digits[d] = s[i]

RECURSIVE ParseInt(_)
\* int(s) for decimal text.
ParseInt(s) == IF Len(s) = 1 THEN DigitValue(s[1])
               ELSE 10 * ParseInt(SubSeq(s, 1, Len(s) - 1)) + DigitValue(s[Len(s)])

RECURSIVE TupleGE(_, _)
\* Python's a >= b on tuples of integers (of any lengths).
TupleGE(a, b) ==
    IF b = <<>> THEN TRUE
    ELSE IF a = <<>> THEN FALSE
    ELSE IF a[1] # b[1] THEN a[1] > b[1]
    ELSE TupleGE(Tail(a), Tail(b))

\* The minimum JavaScript-runtime version of install_node.
MinNodeVersion == <<20, 10, 0>>

\* The components install_node compares: version.split(".").
NodeParts(out) == Split(LStripV(Strip(out)), ".")

\* tuple(map(int, ...)) raises ValueError when a component is not a number.
NodeParses(out) == \A i \in 1..Len(NodeParts(out)) : IsInt(NodeParts(out)[i])

NodeTuple(out) == [i \in 1..Len(NodeParts(out)) |-> ParseInt(NodeParts(out)[i])]

RECURSIVE TextGE(_, _)
\* Python's a >= b on text made of digits (character by character).
TextGE(a, b) ==
    IF b = <<>> THEN TRUE
    ELSE IF a = <<>> THEN FALSE
    ELSE IF a[1] # b[1] THEN DigitValue(a[1]) > DigitValue(b[1])
    ELSE TextGE(Tail(a), Tail(b))

RECURSIVE PartsGE(_, _)
\* Python's a >= b on tuples of digit texts.
PartsGE(a, b) ==
    IF b = <<>> THEN TRUE
    ELSE IF a = <<>> THEN FALSE
    ELSE IF a[1] # b[1] THEN TextGE(a[1], b[1])
    ELSE PartsGE(Tail(a), Tail(b))

\* The comparison of line 210 had it compared the components as text.
NodeSatisfiesLexical(out) ==
    PartsGE(NodeParts(out), [i \in 1..3 |-> Str(MinNodeVersion[i])])

\* The comparison of line 210.
NodeSatisfies(out) == TupleGE(NodeTuple(out), MinNodeVersion)

\* ------------------------------------------------------- environment
Systems == {"Linux", "Darwin", "Windows", "FreeBSD"}

\* The platform test of line 16 had it let every POSIX platform through.
SupportedPosix(s) == s # "Windows"

\* The platform test of line 16.
Supported(s) == s \in {"Linux", "Darwin"}

\* Interpreter versions: of a binary on the host, of the running interpreter.
PyVersions == {<<3, 11, 9>>, <<3, 12, 4>>}

LinuxPython == "python3.11"
BrewPython == "/opt/homebrew/bin/python3.11"
FrameworkPython == "/Library/Frameworks/Python.framework/Versions/3.11/bin/python3.11"
\* The file a bare "python3.11" names for os.path.exists and os.execv, which
\* do not search PATH.
CwdPython == "./python3.11"

Paths == {LinuxPython, BrewPython, FrameworkPython, CwdPython}

Resolve(path) == IF path = LinuxPython THEN CwdPython ELSE path

\* Versions `node --version` may report.
NodeVersions == {<<ma, mi, pa>> : ma \in {9, 20, 100}, mi \in {9, 10, 11}, pa \in {0, 9}}

\* An output whose last component is not a number.
NodeMalformed == <<"v", "2", "1", ".", "0", ".", "0", "-", "r", "c", "\n">>

ArgLists == {<<"python3", "install_ollama_openwebui.py">>,
             <<"python3", "install_ollama_openwebui.py", "--yes">>}

OllamaScript == "/tmp/ollama_install.sh"
PythonPkg == "python-3.11.9-macos11.pkg"

VARIABLES
    system,          \* platform.system()
    cur,             \* version of the running interpreter (sys.version_info)
    proc_argv,       \* argv of the running process; sys.argv is its tail
    execs,           \* number of os.execv re-executions so far
    pc,              \* source line the process is at
    rc,              \* the run_command call in progress
    ret,             \* line install_homebrew returns to (0: not in it)
    exit_code,       \* None while running, else <<code>>
    invoked,         \* lines of the operations this process has performed
    done,            \* functions main has returned from, in order
    python_bin,      \* install_python's / main's python_bin
    python_version,  \* install_python's python_version (None: unbound)
    py_return,       \* line of the return statement install_python left by
    node_version,    \* install_node's node_version (None: unbound)
    pyver,           \* host: path -> version the binary there reports
    brew_present,    \* host: shutil.which("brew") is not None
    tmpfiles,        \* host: files of interest in temporary storage
    temp_dirs,       \* host: directories made by tempfile.mkdtemp still there
    svc              \* host: service-manager state

vars == <<system, cur, proc_argv, execs, pc, rc, ret, exit_code, invoked, done,
          python_bin, python_version, py_return, node_version,
          pyver, brew_present, tmpfiles, temp_dirs, svc>>

procvars == <<system, cur, proc_argv, execs>>
locals == <<python_bin, python_version, py_return, node_version>>
host == <<pyver, brew_present, tmpfiles, temp_dirs, svc>>

Running == exit_code = None

\* ------------------------------------------------- service manager
SvcInit == [tmp |-> {}, dir |-> {}, owned |-> {}, reloaded |-> FALSE,
            enabled |-> {}, active |-> {}, log |-> <<>>]

\* The Linux chain had it enabled and started one service after the other.
LinuxChainPerService == << <<"mv", "ollama">>, <<"mv", "openwebui">>, <<"daemon-reload", "">>,
                           <<"enable", "ollama">>, <<"start", "ollama">>,
                           <<"enable", "openwebui">>, <<"start", "openwebui">> >>

\* The && chain of the Linux registration command.
LinuxChain == << <<"mv", "ollama">>, <<"mv", "openwebui">>, <<"daemon-reload", "">>,
                 <<"enable", "ollama">>, <<"enable", "openwebui">>,
                 <<"start", "ollama">>, <<"start", "openwebui">> >>

\* The && chain of the macOS registration command.
DarwinChain == << <<"mv", "ollama">>, <<"mv", "openwebui">>, <<"chown", "">>,
                  <<"load", "ollama">>, <<"load", "openwebui">> >>

\* The effect of one command of a chain on the service manager's state:
\* mv moves a descriptor from temporary storage into the service directory,
\* launchctl load registers and (RunAtLoad) starts a daemon.
ShellStep(s, st) ==
    [s EXCEPT !.log = Append(@, st),
              !.tmp = IF st[1] = "mv" THEN @ \ {st[2]} ELSE @,
              !.dir = IF st[1] = "mv" THEN @ \cup {st[2]} ELSE @,
              !.owned = IF st[1] = "chown" THEN @ \cup {"ollama", "openwebui"} ELSE @,
              !.reloaded = IF st[1] = "daemon-reload" THEN TRUE ELSE @,
              !.enabled = IF st[1] \in {"enable", "load"} THEN @ \cup {st[2]} ELSE @,
              !.active = IF st[1] \in {"start", "load"} THEN @ \cup {st[2]} ELSE @]

RECURSIVE RunChain(_, _, _)
\* The shell runs a && b && ...: the first k commands of the chain succeed.
RunChain(s, chain, k) ==
    IF k = 0 THEN s ELSE ShellStep(RunChain(s, chain, k - 1), chain[k])

\* ------------------------------------------------------- run_command
\* Retry count each call site passes (default 1).
Retries(l) == IF l \in {54, 57, 66, 67, 72, 76, 112, 141, 146, 171, 218, 226} THEN 2 ELSE 1

\* Lines holding a run_command call.
Sites == {54, 57, 66, 67, 72, 76, 81, 98, 112, 128, 133, 141, 146, 153, 171, 181,
          189, 204, 218, 226, 233, 241, 243, 246, 277, 284, 295, 300, 306, 350, 419}

Idle == [st |-> "idle", retries |-> 0, attempt |-> 0, sleeps |-> 0, fails |-> 0, out |-> <<>>]

\* Entry of run_command: the loop of line 23 starts at attempt 1.
Frame(n) == [st |-> "run", retries |-> n, attempt |-> 1, sleeps |-> 0, fails |-> 0, out |-> <<>>]

\* One result of the external command: its exit status, its standard output
\* and what it left on the host.
Out(ok, out) == [ok |-> ok, out |-> out, pyver |-> pyver, brew |-> brew_present, svc |-> svc]

\* An installer that exits zero has either put a 3.11 binary at the path or
\* left there what was there (another binary shadows it, another prefix).
Installs(path) ==
    {Out(FALSE, <<>>), Out(TRUE, <<>>),
     [Out(TRUE, <<>>) EXCEPT !.pyver = [pyver EXCEPT ![path] = <<3, 11, 9>>]]}

ChainOutcomes(chain) ==
    {[Out(k = Len(chain), <<>>) EXCEPT !.svc = RunChain(svc, chain, k)] : k \in 0..Len(chain)}

\* What `brew list python@3.11 || true` prints when the formula is installed.
BrewListed == <<"/", "p", "y", "t", "h", "o", "n", "@", "3", ".", "1", "1", "/">>
BrewFormula == <<"p", "y", "t", "h", "o", "n", "@", "3", ".", "1", "1">>

\* The results the command of call site l can have on the current host
\* (l = 0: an arbitrary command, for the run_command harness).
Outcomes(l) ==
    CASE l \in {98, 153, 189} ->
           IF pyver[python_bin] = None THEN {Out(FALSE, <<>>)}
           ELSE {Out(TRUE, PythonVersionOutput(pyver[python_bin]))}
      [] l = 204 ->
           {Out(FALSE, <<>>), Out(TRUE, NodeMalformed)}
               \cup {Out(TRUE, NodeVersionOutput(v)) : v \in NodeVersions}
      [] l = 54 -> {Out(FALSE, <<>>), [Out(TRUE, <<>>) EXCEPT !.brew = TRUE]}
      [] l = 112 -> Installs(LinuxPython)
      [] l = 146 -> Installs(BrewPython)
      [] l = 171 -> Installs(FrameworkPython)
      [] l \in {128, 226} -> {Out(TRUE, <<>>)}
      [] l = 133 -> {Out(TRUE, <<>>), Out(TRUE, BrewListed)}
      [] l = 350 -> ChainOutcomes(LinuxChain)
      [] l = 419 -> ChainOutcomes(DarwinChain)
      [] l = 0 -> {Out(FALSE, <<>>)} \cup {Out(TRUE, PythonVersionOutput(v)) : v \in PyVersions}
      [] OTHER -> {Out(TRUE, <<>>), Out(FALSE, <<>>)}

\* The frame after an attempt that exited zero (lines 25-34).
AfterSuccess(f, out) == [f EXCEPT !.st = "ok", !.out = out]

\* The frame after a failed attempt had line 39 compared with retries + 1.
AfterFailureOffByOne(f) ==
    IF f.attempt = f.retries + 1 THEN [f EXCEPT !.st = "raised", !.fails = @ + 1]
    ELSE [f EXCEPT !.st = "sleep", !.fails = @ + 1]

\* The frame after an attempt that exited non-zero (lines 35-43): raise on
\* the last attempt, otherwise sleep and go round the loop.
AfterFailure(f) ==
    IF f.attempt = f.retries THEN [f EXCEPT !.st = "raised", !.fails = @ + 1]
    ELSE [f EXCEPT !.st = "sleep", !.fails = @ + 1]

\* The frame after time.sleep(2): the next attempt.
AfterSleep(f) == [f EXCEPT !.st = "run", !.attempt = @ + 1, !.sleeps = @ + 1]

\* run_command, one attempt: subprocess.run of the command.
SubprocessRun ==
    /\ Running
    /\ rc.st = "run"
    /\ \E o \in Outcomes(pc) :
          /\ rc' = IF o.ok THEN AfterSuccess(rc, o.out) ELSE AfterFailure(rc)
          /\ pyver' = o.pyver
          /\ brew_present' = o.brew
          /\ svc' = o.svc
    /\ UNCHANGED <<pc, ret, exit_code, invoked, done, procvars, locals, tmpfiles, temp_dirs>>

\* run_command, between attempts: time.sleep(2).
Sleep ==
    /\ Running
    /\ rc.st = "sleep"
    /\ rc' = AfterSleep(rc)
    /\ UNCHANGED <<pc, ret, exit_code, invoked, done, procvars, locals, host>>

Ok(l) == Running /\ pc = l /\ rc.st = "ok"
Raised(l) == Running /\ pc = l /\ rc.st = "raised"
Returned(l) == Ok(l) \/ Raised(l)
At(l) == Running /\ pc = l /\ rc.st = "idle"

\* Control passes to the run_command call on line l, after the operations ops.
EnterVia(l, ops) ==
    /\ pc' = l
    /\ rc' = Frame(Retries(l))
    /\ invoked' = invoked \o ops \o <<l>>

Enter(l) == EnterVia(l, <<>>)

\* Control passes to line l having performed the operations ops.
Step(l, ops) ==
    /\ pc' = l
    /\ rc' = Idle
    /\ invoked' = invoked \o ops

\* Control passes to the operation on line l, which is now attempted.
StepOp(l) == Step(l, <<l>>)

\* The process terminates with a non-zero status (sys.exit(1), or an
\* exception no handler catches), at the line it is on.
Fatal ==
    /\ exit_code' = <<1>>
    /\ UNCHANGED <<pc, rc, invoked, done, ret, procvars, locals, host>>

\* ------------------------------------------------------------ Init
ExpectedBin(s) == IF s = "Darwin" THEN BrewPython ELSE LinuxPython

HostPython(s) ==
    {f \in [Paths -> PyVersions \cup {None}] :
        /\ s # "Linux" => f[LinuxPython] = None /\ f[CwdPython] = None
        /\ s # "Darwin" => f[BrewPython] = None /\ f[FrameworkPython] = None}

Init ==
    /\ system \in Systems
    /\ cur \in PyVersions
    /\ proc_argv \in ArgLists
    /\ execs = 0
    /\ pc = 429
    /\ rc = Idle
    /\ ret = 0
    /\ exit_code = None
    /\ invoked = <<>>
    /\ done = <<>>
    /\ python_bin = ""
    /\ python_version = None
    /\ py_return = 0
    /\ node_version = None
    /\ pyver \in HostPython(system)
    /\ brew_present \in (IF system = "Darwin" THEN BOOLEAN ELSE {FALSE})
    /\ tmpfiles = {}
    /\ temp_dirs = 0
    /\ svc = SvcInit

\* ------------------------------------------------------ check_system
\* Lines 13-19, and main's call of install_python (line 430) with the
\* choice of the expected binary (line 96) and the fast-path check (98).
check_system ==
    /\ At(429)
    /\ IF Supported(system)
       THEN /\ done' = Append(done, "check_system")
            /\ python_bin' = ExpectedBin(system)
            /\ Enter(98)
            /\ UNCHANGED exit_code
       ELSE /\ exit_code' = <<1>>
            /\ pc' = 18
            /\ UNCHANGED <<rc, invoked, done, python_bin>>
    /\ UNCHANGED <<ret, procvars, python_version, py_return, node_version, host>>

\* ---------------------------------------------------- install_python
\* install_python has returned python_bin to main by the return on `line`.
ReturnPython(line) ==
    /\ py_return' = line
    /\ done' = Append(done, "install_python")
    /\ Step(431, <<>>)

\* The test of line 103 had it been written with == in place of `in`.
FastPathHitExact(st, out) == st = "ok" /\ out = PinnedText

\* Lines 98-103: the check ran without raising and "3.11" is in its output.
FastPathHit(st, out) == st = "ok" /\ Contains(PinnedText, out)

\* Lines 97-107: the fast path.
install_python_check ==
    /\ Returned(98)
    /\ IF FastPathHit(rc.st, rc.out)
       THEN /\ python_version' = rc.out
            /\ ReturnPython(105)
       ELSE /\ python_version' = (IF rc.st = "ok" THEN rc.out ELSE python_version)
            /\ Step(109, <<>>)
            /\ UNCHANGED <<py_return, done>>
    /\ UNCHANGED <<ret, exit_code, procvars, python_bin, node_version, host>>

\* Lines 109-110 and 123-125: the platform branch.
install_python_branch ==
    /\ At(109)
    /\ IF system = "Linux"
       THEN Enter(112) /\ UNCHANGED ret
       ELSE Step(49, <<>>) /\ ret' = 125
    /\ UNCHANGED <<exit_code, done, procvars, locals, host>>

\* Lines 111-122: the Linux package manager.
install_python_linux ==
    /\ Returned(112)
    /\ IF rc.st = "ok"
       THEN /\ python_bin' = LinuxPython
            /\ Enter(189)
            /\ UNCHANGED exit_code
       ELSE /\ exit_code' = <<1>>
            /\ pc' = 122
            /\ UNCHANGED <<rc, invoked, python_bin>>
    /\ UNCHANGED <<ret, done, procvars, python_version, py_return, node_version, host>>

\* Lines 126-165: Homebrew install and link; every CalledProcessError raised
\* here is caught (line 162) and leads to the installer-package fallback.
install_python_homebrew ==
    /\ \/ /\ Ok(128)
          /\ Enter(133)
          /\ UNCHANGED <<python_bin, python_version, py_return, done>>
       \/ /\ Ok(133)
          /\ IF Contains(BrewFormula, rc.out) THEN Enter(146) ELSE Enter(141)
          /\ UNCHANGED <<python_bin, python_version, py_return, done>>
       \/ /\ Ok(141)
          /\ Enter(146)
          /\ UNCHANGED <<python_bin, python_version, py_return, done>>
       \/ /\ Ok(146)
          /\ python_bin' = BrewPython
          /\ IF pyver[BrewPython] # None THEN Enter(153) ELSE StepOp(166)
          /\ UNCHANGED <<python_version, py_return, done>>
       \/ /\ Ok(153)
          /\ python_version' = rc.out
          /\ ReturnPython(159)
          /\ UNCHANGED python_bin
       \/ /\ Raised(141) \/ Raised(146) \/ Raised(153)
          /\ StepOp(166)
          /\ UNCHANGED <<python_bin, python_version, py_return, done>>
    /\ UNCHANGED <<ret, exit_code, procvars, node_version, host>>

\* Temporary storage had the removal of line 177 followed the installer run
\* instead of standing in a finally block.
AfterInstallerNoFinally(files, st) == IF st = "ok" THEN files \ {PythonPkg} ELSE files

\* Lines 170-177: temporary storage after the installer run, whatever its
\* result st (try/finally).
AfterInstaller(files, st) == files \ {PythonPkg}

\* Lines 166-186: the installer-package fallback.
install_python_pkg ==
    /\ \/ /\ At(166)                        \* tempfile.mkdtemp()
          /\ temp_dirs' = temp_dirs + 1
          /\ StepOp(169)
          /\ UNCHANGED <<exit_code, tmpfiles, python_bin>>
       \/ /\ At(169)                        \* urlretrieve succeeds
          /\ tmpfiles' = tmpfiles \cup {PythonPkg}
          /\ Enter(171)
          /\ UNCHANGED <<exit_code, temp_dirs, python_bin>>
       \/ /\ At(169)                        \* urlretrieve raises
          /\ exit_code' = <<1>>
          /\ UNCHANGED <<pc, rc, invoked, tmpfiles, temp_dirs, python_bin>>
       \/ /\ Returned(171)                  \* finally: os.remove(pkg_path)
          /\ tmpfiles' = AfterInstaller(tmpfiles, rc.st)
          /\ IF rc.st = "ok"
             THEN /\ python_bin' = FrameworkPython
                  /\ EnterVia(181, <<177, 179>>)
                  /\ UNCHANGED exit_code
             ELSE /\ exit_code' = <<1>>
                  /\ invoked' = Append(invoked, 177)
                  /\ UNCHANGED <<pc, rc, python_bin>>
          /\ UNCHANGED temp_dirs
       \/ /\ Returned(181)                  \* the profile append is advisory
          /\ Enter(189)
          /\ UNCHANGED <<exit_code, tmpfiles, temp_dirs, python_bin>>
    /\ UNCHANGED <<ret, done, procvars, python_version, py_return, node_version,
                   pyver, brew_present, svc>>

\* Lines 188-198: the final verification.
install_python_verify ==
    /\ Returned(189)
    /\ IF rc.st = "ok"
       THEN /\ python_version' = rc.out
            /\ ReturnPython(195)
            /\ UNCHANGED exit_code
       ELSE /\ exit_code' = <<1>>
            /\ pc' = 198
            /\ UNCHANGED <<rc, invoked, done, python_version, py_return>>
    /\ UNCHANGED <<ret, procvars, python_bin, node_version, host>>

\* -------------------------------------------------- install_homebrew
\* install_homebrew returns to its caller: install_python (line 125) goes on
\* to line 128, install_node (line 225) to line 226.
HomebrewReturns == IF ret = 125 THEN Enter(128) ELSE Enter(226)

\* Lines 45-86. Only the bootstrap of line 54 is outside a try block: its
\* CalledProcessError reaches the caller, where install_python catches it
\* (line 164) and install_node does not.
install_homebrew ==
    /\ \/ /\ At(49)
          /\ IF brew_present THEN Enter(57) ELSE Enter(54)
          /\ UNCHANGED <<ret, exit_code>>
       \/ /\ Ok(54)
          /\ Enter(57)
          /\ UNCHANGED <<ret, exit_code>>
       \/ /\ Raised(54)
          /\ IF ret = 125
             THEN StepOp(166) /\ ret' = 0 /\ UNCHANGED exit_code
             ELSE exit_code' = <<1>> /\ UNCHANGED <<pc, rc, invoked, ret>>
       \/ /\ Returned(57)
          /\ Enter(66)
          /\ UNCHANGED <<ret, exit_code>>
       \/ /\ Ok(66)
          /\ Enter(67)
          /\ UNCHANGED <<ret, exit_code>>
       \/ /\ Raised(66) \/ Returned(67)
          /\ Enter(72)
          /\ UNCHANGED <<ret, exit_code>>
       \/ /\ Returned(72)
          /\ Enter(76)
          /\ UNCHANGED <<ret, exit_code>>
       \/ /\ Returned(76)
          /\ EnterVia(81, <<79>>)
          /\ UNCHANGED <<ret, exit_code>>
       \/ /\ Returned(81)
          /\ HomebrewReturns
          /\ ret' = 0
          /\ UNCHANGED exit_code
    /\ UNCHANGED <<done, procvars, locals, host>>

\* -------------------------------------------------------------- main
\* check_python_version, lines 88-91.
check_python_version == cur[1] = 3 /\ cur[2] = 11

\* os.path.exists(path).
PathExists(path) == pyver[Resolve(path)] # None

\* Lines 431-439: already under 3.11, go on to install_node (line 204).
main_continue ==
    /\ At(431)
    /\ check_python_version
    /\ python_version' = None
    /\ py_return' = 0
    /\ Enter(204)
    /\ UNCHANGED <<ret, exit_code, done, procvars, python_bin, node_version, host>>

\* Lines 431-434: os.execv replaces the process image; the new interpreter
\* is the file python_bin names, its sys.argv the tail of the argv passed.
main_execv ==
    /\ At(431)
    /\ ~check_python_version
    /\ PathExists(python_bin)
    /\ execs < MaxExecs
    /\ cur' = pyver[Resolve(python_bin)]
    /\ proc_argv' = <<python_bin>> \o Tail(proc_argv)
    /\ execs' = execs + 1
    /\ pc' = 429
    /\ rc' = Idle
    /\ invoked' = <<>>
    /\ done' = <<>>
    /\ python_bin' = ""
    /\ python_version' = None
    /\ py_return' = 0
    /\ UNCHANGED <<system, ret, exit_code, node_version, host>>

\* Lines 435-437: the binary is not a file.
main_not_found ==
    /\ At(431)
    /\ ~check_python_version
    /\ ~PathExists(python_bin)
    /\ exit_code' = <<1>>
    /\ pc' = 437
    /\ UNCHANGED <<rc, invoked, done, ret, procvars, locals, host>>

\* ------------------------------------------------------ install_node
ReturnNode ==
    /\ done' = Append(done, "install_node")
    /\ Step(440, <<>>)

\* Lines 203-214: the version check.
install_node_check ==
    \/ /\ Ok(204)
       /\ node_version' = rc.out
       /\ IF ~NodeParses(rc.out)
          THEN /\ exit_code' = <<1>>
               /\ pc' = 210
               /\ UNCHANGED <<rc, invoked, done>>
          ELSE /\ IF NodeSatisfies(rc.out)
                  THEN ReturnNode
                  ELSE Step(216, <<>>) /\ UNCHANGED done
               /\ UNCHANGED exit_code
       /\ UNCHANGED <<ret, procvars, python_bin, python_version, py_return, host>>
    \/ /\ Raised(204)
       /\ Step(216, <<>>)
       /\ UNCHANGED <<ret, exit_code, done, procvars, locals, host>>

\* Lines 216-217 and 224-225: the platform branch. node_version is not read
\* after line 210 and is dropped here.
install_node_branch ==
    /\ At(216)
    /\ IF system = "Linux"
       THEN Enter(218) /\ UNCHANGED ret
       ELSE Step(49, <<>>) /\ ret' = 225
    /\ node_version' = None
    /\ UNCHANGED <<exit_code, done, procvars, python_bin, python_version, py_return, host>>

\* Lines 218-223.
install_node_linux ==
    \/ /\ Ok(218)
       /\ ReturnNode
       /\ UNCHANGED <<ret, exit_code, procvars, locals, host>>
    \/ Raised(218) /\ Fatal

\* Lines 226-249: only the force-link of line 233 is inside a try block.
install_node_darwin ==
    \/ /\ \/ Ok(226) /\ Enter(233)
          \/ Ok(233) /\ Enter(246)
          \/ Raised(233) /\ \E node_path_exists \in BOOLEAN :
                               IF node_path_exists THEN Enter(241) ELSE Step(242, <<>>)
          \/ Ok(241) /\ Step(242, <<>>)
          \/ At(242) /\ \E npm_path_exists \in BOOLEAN :
                               IF npm_path_exists THEN Enter(243) ELSE Enter(246)
          \/ Ok(243) /\ Enter(246)
       /\ UNCHANGED <<ret, exit_code, done, procvars, locals, host>>
    \/ /\ Ok(246)
       /\ ReturnNode
       /\ UNCHANGED <<ret, exit_code, procvars, locals, host>>
    \/ (Raised(241) \/ Raised(243) \/ Raised(246)) /\ Fatal

\* ---------------------------------------------------- install_ollama
ReturnOllama ==
    /\ done' = Append(done, "install_ollama")
    /\ StepOp(293)

\* Lines 271-287.
install_ollama ==
    \/ /\ At(440)                           \* main, line 440
       /\ node_version' = None
       /\ StepOp(276)
       /\ UNCHANGED <<ret, exit_code, done, procvars, python_bin, python_version,
                      py_return, host>>
    \/ /\ At(276)                           \* urlretrieve succeeds
       /\ tmpfiles' = tmpfiles \cup {OllamaScript}
       /\ Enter(277)
       /\ UNCHANGED <<ret, exit_code, done, procvars, locals, pyver, brew_present,
                      temp_dirs, svc>>
    \/ At(276) /\ Fatal                     \* urlretrieve raises
    \/ /\ Ok(277)
       /\ StepOp(278)
       /\ UNCHANGED <<ret, exit_code, done, procvars, locals, host>>
    \/ Raised(277) /\ Fatal
    \/ /\ At(278)                           \* os.remove succeeds
       /\ tmpfiles' = tmpfiles \ {OllamaScript}
       /\ Step(282, <<>>)
       /\ UNCHANGED <<ret, exit_code, done, procvars, locals, pyver, brew_present,
                      temp_dirs, svc>>
    \/ At(278) /\ Fatal                     \* os.remove raises OSError
    \/ /\ At(282)
       /\ \E nvidia_smi \in BOOLEAN :
             IF system = "Linux" /\ nvidia_smi
             THEN Enter(284) /\ UNCHANGED done
             ELSE ReturnOllama
       /\ UNCHANGED <<ret, exit_code, procvars, locals, host>>
    \/ /\ Ok(284)
       /\ ReturnOllama
       /\ UNCHANGED <<ret, exit_code, procvars, locals, host>>
    \/ Raised(284) /\ Fatal

\* -------------------------------------------------- install_openwebui
\* Lines 289-306, and the platform branch of configure_services.
install_openwebui ==
    \/ /\ \/ At(293) /\ Enter(295)          \* mkdir succeeds
          \/ Ok(295) /\ Enter(300)
          \/ Ok(300) /\ Enter(306)
       /\ UNCHANGED <<ret, exit_code, done, procvars, locals, host>>
    \/ /\ Ok(306)
       /\ done' = Append(done, "install_openwebui")
       /\ StepOp(IF system = "Linux" THEN 345 ELSE 414)
       /\ UNCHANGED <<ret, exit_code, procvars, locals, host>>
    \/ At(293) /\ Fatal                     \* mkdir raises
    \/ (Raised(295) \/ Raised(300) \/ Raised(306)) /\ Fatal

\* ------------------------------------------------ configure_services
\* Lines 308-424, and the end of main (443-444).
configure_services ==
    \/ /\ \/ At(345) /\ Enter(350)          \* both descriptors written to /tmp
          \/ At(414) /\ Enter(419)
       /\ svc' = [svc EXCEPT !.tmp = @ \cup {"ollama", "openwebui"}]
       /\ UNCHANGED <<ret, exit_code, done, procvars, locals, pyver, brew_present,
                      tmpfiles, temp_dirs>>
    \/ /\ Ok(350) \/ Ok(419)
       /\ done' = Append(done, "configure_services")
       /\ Step(443, <<>>)
       /\ exit_code' = <<0>>
       /\ UNCHANGED <<ret, procvars, locals, host>>
    \/ (Raised(350) \/ Raised(419)) /\ Fatal

\* ------------------------------------------------------------- specs
Next ==
    \/ SubprocessRun
    \/ Sleep
    \/ check_system
    \/ install_python_check
    \/ install_python_branch
    \/ install_python_linux
    \/ install_python_homebrew
    \/ install_python_pkg
    \/ install_python_verify
    \/ install_homebrew
    \/ main_continue
    \/ main_execv
    \/ main_not_found
    \/ install_node_check
    \/ install_node_branch
    \/ install_node_linux
    \/ install_node_darwin
    \/ install_ollama
    \/ install_openwebui
    \/ configure_services

Spec == Init /\ [][Next]_vars

\* run_command alone, called once with a retry count from 1..MaxRetries on
\* an arbitrary command.
InitRun ==
    /\ system = "Linux"
    /\ cur = <<3, 11, 9>>
    /\ proc_argv \in ArgLists
    /\ execs = 0
    /\ pc = 0
    /\ rc \in {Frame(n) : n \in 1..MaxRetries}
    /\ ret = 0
    /\ exit_code = None
    /\ invoked = <<0>>
    /\ done = <<>>
    /\ python_bin = ""
    /\ python_version = None
    /\ py_return = 0
    /\ node_version = None
    /\ pyver = [p \in Paths |-> None]
    /\ brew_present = FALSE
    /\ tmpfiles = {}
    /\ temp_dirs = 0
    /\ svc = SvcInit

NextRun == SubprocessRun \/ Sleep

SpecRun == InitRun /\ [][NextRun]_vars

\* ------------------------------------------------------------ claims
InvokedSet == {invoked[i] : i \in 1..Len(invoked)}
DoneSet == {done[i] : i \in 1..Len(done)}
Count(x, seq) == Cardinality({i \in 1..Len(seq) : seq[i] = x})
IsPrefix(a, b) == Len(a) <= Len(b) /\ SubSeq(b, 1, Len(a)) = a

MainOrder == <<"check_system", "install_python", "install_node", "install_ollama",
               "install_openwebui", "configure_services">>

NodeOps == {204, 218, 226, 233, 241, 243, 246}
NodeInstallOps == {218, 226}
OllamaOps == {276, 277, 278, 284}
WebuiOps == {293, 295, 300, 306}
ServiceOps == {345, 350, 414, 419}

\* The output of an interpreter whose version is 3.11.x.
IsPinnedOutput(out) ==
    \E v \in PyVersions : v[1] = 3 /\ v[2] = 11 /\ out = PythonVersionOutput(v)

\* C1: no operation of a step of main is attempted unless the platform gate
\* accepted the platform and every earlier step returned: on a platform
\* other than Linux and Darwin the process exits non-zero with no operation
\* performed; the steps return in main's order; JavaScript-runtime
\* operations run only under a 3.11 interpreter; on Linux a failed download
\* of the model-runtime install script ends the process non-zero with no
\* web-application or service operation; exit status zero only after
\* configure_services returned.
C1_StepOrder ==
    /\ system \notin {"Linux", "Darwin"} =>
          /\ invoked = <<>>
          /\ pc # 429 => exit_code = <<1>>
    /\ IsPrefix(done, MainOrder)
    /\ invoked # <<>> => "check_system" \in DoneSet
    /\ InvokedSet \cap NodeOps # {} =>
          "install_python" \in DoneSet /\ cur[1] = 3 /\ cur[2] = 11
    /\ InvokedSet \cap OllamaOps # {} => "install_node" \in DoneSet
    /\ InvokedSet \cap WebuiOps # {} =>
          "install_ollama" \in DoneSet /\ 277 \in InvokedSet /\ OllamaScript \notin tmpfiles
    /\ InvokedSet \cap ServiceOps # {} =>
          "install_openwebui" \in DoneSet /\ WebuiOps \subseteq InvokedSet
    /\ (system = "Linux" /\ pc = 276 /\ exit_code # None) =>
          exit_code = <<1>> /\ InvokedSet \cap (WebuiOps \cup ServiceOps) = {}
    /\ exit_code = <<0>> => done = MainOrder /\ svc.active = {"ollama", "openwebui"}
    /\ exit_code \in {None, <<0>>, <<1>>}

\* On Linux the download of the install script failed and ended the process.
C1_Witness == system = "Linux" /\ pc = 276 /\ exit_code = <<1>>

\* C2: when the initial version check of the expected binary succeeds and
\* reports 3.11, install_python does not enter its installation part and
\* returns the expected path by the return of line 105, having performed
\* nothing but that check: no installation command, no PATH mutation, no
\* shell-profile append.
C2_FastPath ==
    /\ pc \in 49..198 => ~IsPinnedOutput(python_version)
    /\ (pc = 431 /\ py_return = 105) =>
          /\ python_bin = (IF system = "Darwin" THEN BrewPython ELSE LinuxPython)
          /\ invoked = <<98>>

\* install_python has returned by the fast path on a 3.11 binary.
C2_Witness == pc = 431 /\ py_return = 105 /\ IsPinnedOutput(python_version)

\* The installer-package run of this process is over: it returned or raised
\* and the finally block has run.
InstallerOver == 171 \in InvokedSet /\ (pc # 171 \/ exit_code # None)

\* C3 as stated: whenever the fast path fails and the package-manager
\* installation fails, the installer-package fallback is attempted exactly
\* once, and the package and its temporary directory are gone afterwards.
C3_Original ==
    /\ pc = 122 => Count(166, invoked) = 1
    /\ InstallerOver => PythonPkg \notin tmpfiles /\ temp_dirs = 0

\* C3 as amended: on Darwin no failure of the Homebrew route ends the
\* process, install_python reaches its final verification only through the
\* installer-package fallback, which a process enters at most once; once
\* the installer run is over (returned or raised) the downloaded package is
\* gone from temporary storage, while the directory made by mkdtemp stays.
\* On Linux a failed package-manager installation ends the process non-zero
\* and the fallback is never attempted.
C3_Fallback ==
    /\ Count(166, invoked) <= 1
    /\ system = "Linux" => 166 \notin InvokedSet /\ (pc = 122 => exit_code = <<1>>)
    /\ (exit_code # None /\ pc \in {128, 133, 141, 146, 153}) => FALSE
    /\ (exit_code # None /\ pc = 54) => 204 \in InvokedSet
    /\ (system = "Darwin" /\ (pc \in {189, 198} \/ py_return = 195)) =>
          /\ Count(166, invoked) = 1
          /\ InstallerOver
    /\ InstallerOver => PythonPkg \notin tmpfiles
    /\ 169 \in InvokedSet => temp_dirs >= 1
    /\ temp_dirs <= execs + 1

\* The installer run failed on both attempts: the process ended, the package
\* was removed, the temporary directory is still there.
C3_Witness ==
    /\ system = "Darwin" /\ pc = 171 /\ exit_code = <<1>> /\ rc.st = "raised"
    /\ PythonPkg \notin tmpfiles /\ temp_dirs = 1

\* C4 as stated: install_python returns only a path whose binary was run in
\* this call and reported the pinned version 3.11.
C4_Original == pc = 431 => IsPinnedOutput(python_version)

\* Numeric comparison of a (major, minor, patch) version with (20, 10, 0).
AtLeastMinimum(v) == v[1] > 20 \/ (v[1] = 20 /\ (v[2] > 10 \/ (v[2] = 10 /\ v[3] >= 0)))

\* C5: install_node skips installation exactly when the reported version,
\* compared numerically as (major, minor, patch), is at least (20, 10, 0):
\* "20.10.0" satisfies the minimum, "20.9.9" and "20.9.0" do not; it takes
\* the installation branch only when the runtime is absent or below the
\* minimum, and returns without an install command only when it is not.
C5_NodeMinimum ==
    /\ pc = 216 => \/ node_version = None
                   \/ \E v \in NodeVersions :
                         node_version = NodeVersionOutput(v) /\ ~AtLeastMinimum(v)
    /\ (pc = 440 /\ node_version # None) =>
          /\ \E v \in NodeVersions :
                node_version = NodeVersionOutput(v) /\ AtLeastMinimum(v)
          /\ InvokedSet \cap NodeInstallOps = {}
    /\ (pc = 440 /\ node_version = None) => InvokedSet \cap NodeInstallOps # {}
    /\ (pc \in {216, 440} /\ node_version = NodeVersionOutput(<<20, 10, 0>>)) => pc = 440
    /\ (pc \in {216, 440} /\ node_version = NodeVersionOutput(<<20, 9, 9>>)) => pc = 216
    /\ (pc \in {216, 440} /\ node_version = NodeVersionOutput(<<20, 9, 0>>)) => pc = 216

\* install_node returned without installing on a runtime reporting v20.10.0.
C5_Witness ==
    /\ pc = 440 /\ node_version = NodeVersionOutput(<<20, 10, 0>>)
    /\ InvokedSet \cap NodeInstallOps = {}

\* The steps the claim calls advisory: the Homebrew hygiene commands, the
\* linking attempts and their fallbacks, the shell-profile appends.
AdvisorySites == {57, 66, 67, 72, 76, 81} \cup {233, 241, 243} \cup {181, 246}

\* C6 as stated: the failure of an advisory step never terminates the
\* process.
C6_Original == exit_code # None => pc \notin AdvisorySites

\* The run of the install script is over and install_ollama has left
\* lines 277-278 or the process has ended.
OllamaRunOver == 277 \in InvokedSet /\ (exit_code # None \/ pc \notin {277, 278})

\* C7 as stated: once the install script was run it no longer exists, whether
\* the run succeeded or failed, and a failed deletion does not end the
\* installation.
C7_Original ==
    /\ OllamaRunOver => OllamaScript \notin tmpfiles
    /\ exit_code # None => pc # 278

\* C8 as stated: whenever install_python returned and the running
\* interpreter is not 3.11, main re-executes under python_bin (it never ends
\* at line 437 instead), and at most once per invocation.
C8_Original == pc # 437 /\ execs <= 1

\* C9: a call with retry count n runs the command at most n times, sleeps
\* once between a failed attempt and the next and never after the last,
\* returns at the first attempt that exits zero with that attempt's output
\* and stops there, and raises exactly when all n attempts exited non-zero
\* (n = 1: the first failure raises with no sleep).
C9_RunCommand ==
    /\ rc.retries >= 1
    /\ rc.attempt \in 1..rc.retries
    /\ rc.sleeps = rc.attempt - 1
    /\ rc.st \in {"run", "sleep", "ok", "raised"}
    /\ rc.st \in {"run", "ok"} => rc.fails = rc.attempt - 1
    /\ rc.st = "sleep" => rc.fails = rc.attempt /\ rc.attempt < rc.retries
    /\ rc.st = "raised" <=> rc.fails = rc.retries
    /\ rc.st = "raised" => rc.attempt = rc.retries /\ rc.sleeps = rc.retries - 1
    /\ rc.st = "ok" <=> rc.out \in {PythonVersionOutput(v) : v \in PyVersions}
    /\ rc.st \in {"ok", "raised"} => ~ENABLED (SubprocessRun \/ Sleep)
    /\ (rc.retries = 1 /\ rc.fails = 1) => rc.st = "raised" /\ rc.sleeps = 0

\* A call with n = 3 returned at its second attempt.
C9_Witness == rc.st = "ok" /\ rc.retries = 3 /\ rc.attempt = 2 /\ rc.sleeps = 1

\* Position of a registration command in the order the claim gives: moves,
\* ownership, reload, enables (or loads), starts; within each, the
\* model-runtime service before the web-application service.
Rank(st) ==
    (CASE st[1] = "mv" -> 10 [] st[1] = "chown" -> 20 [] st[1] = "daemon-reload" -> 30
       [] st[1] \in {"enable", "load"} -> 40 [] st[1] = "start" -> 50)
    + (IF st[2] = "openwebui" THEN 1 ELSE 0)

LogSet == {svc.log[i] : i \in 1..Len(svc.log)}

\* configure_services ended the process at its registration command.
RegistrationFailed == exit_code = <<1>> /\ pc \in {350, 419}

\* The command of the chain that failed.
FailedStep == (IF system = "Linux" THEN LinuxChain ELSE DarwinChain)[Len(svc.log) + 1]

\* C10 as stated: the registration commands run in the claim's order, and
\* when a command registering the web-application service fails, the
\* model-runtime service is registered and active.
C10_Original ==
    /\ \A i, j \in 1..Len(svc.log) : i < j => Rank(svc.log[i]) < Rank(svc.log[j])
    /\ (RegistrationFailed /\ FailedStep[2] = "openwebui") =>
          "ollama" \in svc.enabled /\ "ollama" \in svc.active

\* C10 as amended: both descriptors are written before any registration
\* command runs; the commands run in the order moves, ownership (Darwin),
\* reload (Linux), enables, starts, each for the model-runtime service
\* first, none skipped; nothing is rolled back, the state is that of the
\* commands that ran; the model-runtime service is active after a failure
\* only if its own start (Linux) or load (Darwin) ran before the failing
\* command, as when the last command, the start or load of the
\* web-application service, is the one that fails.
C10_Registration ==
    /\ \A i, j \in 1..Len(svc.log) : i < j => Rank(svc.log[i]) < Rank(svc.log[j])
    /\ svc.log # <<>> => InvokedSet \cap {345, 414} # {}
    /\ \A st \in LogSet :
          /\ st[2] = "openwebui" => <<st[1], "ollama">> \in LogSet
          /\ st[1] \in {"chown", "daemon-reload", "enable", "load"} =>
                {<<"mv", "ollama">>, <<"mv", "openwebui">>} \subseteq LogSet
          /\ st[1] = "enable" => <<"daemon-reload", "">> \in LogSet
          /\ st[1] = "load" => <<"chown", "">> \in LogSet
          /\ st[1] = "start" =>
                {<<"enable", "ollama">>, <<"enable", "openwebui">>} \subseteq LogSet
    /\ \A x \in {"ollama", "openwebui"} :
          /\ x \in svc.dir <=> <<"mv", x>> \in LogSet
          /\ x \in svc.enabled <=> (<<"enable", x>> \in LogSet \/ <<"load", x>> \in LogSet)
          /\ x \in svc.active <=> (<<"start", x>> \in LogSet \/ <<"load", x>> \in LogSet)
    /\ (RegistrationFailed /\ Len(svc.log) = (IF system = "Linux" THEN 6 ELSE 4)) =>
          /\ {"ollama", "openwebui"} \subseteq svc.dir
          /\ "ollama" \in svc.enabled /\ "ollama" \in svc.active
          /\ "openwebui" \notin svc.active
    /\ (RegistrationFailed /\ system = "Linux" /\ Len(svc.log) < 5) => svc.active = {}
    /\ (RegistrationFailed /\ system = "Darwin" /\ Len(svc.log) < 4) => svc.active = {}
    /\ exit_code = <<0>> =>
          svc.enabled = {"ollama", "openwebui"} /\ svc.active = {"ollama", "openwebui"}

\* On Linux the enable of the web-application service failed: the
\* model-runtime service is enabled and was never started.
C10_Witness ==
    /\ RegistrationFailed /\ system = "Linux" /\ Len(svc.log) = 4
    /\ "ollama" \in svc.enabled /\ "ollama" \notin svc.active

=============================================================================
